---------------------------- MODULE Spec2Model ----------------------------
(***************************************************************************)
(* The fixed-depth, append-only Merkle tree of vbeffa/commonwealth.        *)
(*                                                                         *)
(* The standalone draft (src/src/main.rs) is modelled operation by         *)
(* operation: MerkleTree::new is Init, and add_data, generate_proof and    *)
(* verify are one action each.                                             *)
(*                                                                         *)
(* Representation.  A String is a sequence of characters; the characters   *)
(* that occur are the decimal digits, written 0..9.  A u64 digest is kept  *)
(* as its decimal numeral (a non-empty digit sequence without a leading    *)
(* zero), because the digests of a tree of depth 3 do not fit TLC's 32-bit *)
(* integers; format!("{}{}", l, r) is then the concatenation of the two    *)
(* numerals, which is what Display for u64 followed by string              *)
(* concatenation produces.  calculate_hash (SipHash behind DefaultHasher)  *)
(* is modelled as an injective function from strings to numerals.          *)
(*                                                                         *)
(* A Vec is a TLA+ sequence shifted by one: Rust's v[k] is v[k + 1] here   *)
(* for the proof vector, and a function on 0..n-1 for tree and data.       *)
(***************************************************************************)
EXTENDS Integers, Sequences, FiniteSets, TLC

\* Largest depth passed to MerkleTree::new.
MaxDepth == 2

\* The leaf values a caller appends or verifies: "" (also the placeholder)
\* and "2".
Values == {<<>>, <<2>>}

\* The declared roots tried are the roots of the value sequences that repeat
\* with this period.
RootPeriod == 3

VARIABLES depth, root_hash, data, tree, index, ret, calls

vars == <<depth, root_hash, data, tree, index, ret, calls>>

\* The fields of struct MerkleTree, as one value.
Self == [depth |-> depth, root_hash |-> root_hash, data |-> data,
         tree |-> tree, index |-> index]

-----------------------------------------------------------------------------
\* usize::pow(2, n)
RECURSIVE Pow2(_)
Pow2(n) == IF n = 0 THEN 1 ELSE 2 * Pow2(n - 1)

\* String::from(""): the value hashed into every leaf slot by new.
EMPTY == <<>>

\* Node::default().hash and the u64 of a defaulted proof entry: 0.
ZeroDigest == <<0>>

\* calculate_hash: injective, and its result is a decimal numeral.
calculate_hash(s) == <<1>> \o s

\* Mutation: only the second operand reaches the hasher.
FormatRightOnly(l, r) == r

\* format!("{}{}", l, r) for two u64 digests.
Format(l, r) == l \o r

\* Mutation: the left child is read twice.
ParentHashLeftTwice(t, d, i) ==
    calculate_hash(Format(t[d + 1][2 * i], t[d + 1][2 * i]))

\* The digest add_data gives a parent from its two children.
ParentHash(t, d, i) ==
    calculate_hash(Format(t[d + 1][2 * i], t[d + 1][2 * i + 1]))

-----------------------------------------------------------------------------
\* Mutation: the levels are resized with default nodes and never computed.
RECURSIVE BuildLevelsDefault(_, _, _)
BuildLevelsDefault(t, dep, d) ==
    IF d < 0 THEN t
    ELSE LET row == [i \in 0..(Pow2(d) - 1) |-> ZeroDigest]
             t2  == [x \in 0..dep |-> IF x = d THEN row ELSE t[x]]
         IN  BuildLevelsDefault(t2, dep, d - 1)

\* MerkleTree::new, the loop "for d in (0..depth).rev()": levels dep-1 .. 0
\* are filled from the level below.  t holds levels d+1..dep on entry.
RECURSIVE BuildLevels(_, _, _)
BuildLevels(t, dep, d) ==
    IF d < 0 THEN t
    ELSE LET row == [i \in 0..(Pow2(d) - 1) |->
                        calculate_hash(Format(t[d + 1][2 * i], t[d + 1][2 * i + 1]))]
             t2  == [x \in 0..dep |-> IF x = d THEN row ELSE t[x]]
         IN  BuildLevels(t2, dep, d - 1)

\* Mutation: the leaf level is resized with default nodes.
NewTreeDefaultLeaves(dep) ==
    LET leaves == [i \in 0..(Pow2(dep) - 1) |-> ZeroDigest]
        t0     == [x \in 0..dep |-> IF x = dep THEN leaves ELSE <<>>]
    IN  BuildLevels(t0, dep, dep - 1)

\* MerkleTree::new: the tree field after construction.
NewTree(dep) ==
    LET leaves == [i \in 0..(Pow2(dep) - 1) |-> calculate_hash(EMPTY)]
        t0     == [x \in 0..dep |-> IF x = dep THEN leaves ELSE <<>>]
    IN  BuildLevels(t0, dep, dep - 1)

\* MerkleTree::new: the data field after construction (Leaf::default()).
NewData(dep) == [i \in 0..(Pow2(dep) - 1) |-> EMPTY]

\* MerkleTree::new: the struct returned.
new(dep, root) ==
    [depth |-> dep, root_hash |-> root, data |-> NewData(dep),
     tree |-> NewTree(dep), index |-> 0]

\* The Merkle root of a full sequence of values, computed from scratch.
RECURSIVE NodeOf(_, _, _, _)
NodeOf(vals, dep, d, i) ==
    IF d = dep THEN calculate_hash(vals[i])
    ELSE calculate_hash(Format(NodeOf(vals, dep, d + 1, 2 * i),
                               NodeOf(vals, dep, d + 1, 2 * i + 1)))

MerkleRoot(vals, dep) == NodeOf(vals, dep, 0, 0)

\* The declared roots a caller passes to new: the Merkle root of a full
\* sequence of Values (what the tests pass, e.g. main.rs:179), or a digest
\* that is the root of no sequence.
DeclaredRoots(dep) ==
    {MerkleRoot([i \in 0..(Pow2(dep) - 1) |-> pat[i % RootPeriod]], dep) :
        pat \in [0..(RootPeriod - 1) -> Values]} \cup {ZeroDigest}

-----------------------------------------------------------------------------
\* Mutation: the propagation stops after the first parent.
PropagateOnce(t, i, d) ==
    IF i % 2 = 1
    THEN [t EXCEPT ![d - 1][i \div 2] = ParentHash(t, d - 1, i \div 2)]
    ELSE t

\* Mutation: the loop body never runs.
PropagateNever(t, i, d) == t


\* Mutation: every ancestor up to the root is recomputed by every append.
RECURSIVE PropagateAlways(_, _, _)
PropagateAlways(t, i, d) ==
    IF d > 0
    THEN LET i2 == i \div 2
             d2 == d - 1
         IN  PropagateAlways([t EXCEPT ![d2][i2] = ParentHash(t, d2, i2)], i2, d2)
    ELSE t

\* add_data, the loop "while i % 2 == 1": recompute the parent while the
\* index just written is a right child.
RECURSIVE Propagate(_, _, _)
Propagate(t, i, d) ==
    IF i % 2 = 1
    THEN LET i2 == i \div 2
             d2 == d - 1
         IN  Propagate([t EXCEPT ![d2][i2] = ParentHash(t, d2, i2)], i2, d2)
    ELSE t

\* Mutation: the capacity test is off by one.
AddDataFullOffByOne(mt) == mt.index > Pow2(mt.depth)

\* add_data refuses when the cursor is at capacity.
AddDataFull(mt) == mt.index = Pow2(mt.depth)

\* Mutation: the append that fills the tree also stores the computed root as
\* the declared root.
add_dataSetsRoot(mt, v) ==
    IF AddDataFull(mt) THEN mt
    ELSE LET t1 == [mt.tree EXCEPT ![mt.depth][mt.index] = calculate_hash(v)]
             t2 == Propagate(t1, mt.index, mt.depth)
         IN  [mt EXCEPT !.data  = [mt.data EXCEPT ![mt.index] = v],
                        !.tree  = t2,
                        !.index = mt.index + 1,
                        !.root_hash = IF mt.index + 1 = Pow2(mt.depth)
                                      THEN t2[0][0] ELSE mt.root_hash]

\* Mutation: the leaf digest is not written.
add_dataSkipsLeafDigest(mt, v) ==
    IF AddDataFull(mt) THEN mt
    ELSE [mt EXCEPT !.data  = [mt.data EXCEPT ![mt.index] = v],
                    !.tree  = Propagate(mt.tree, mt.index, mt.depth),
                    !.index = mt.index + 1]

\* Mutation: the append that fills the tree stores the declared root at
\* (0, 0).
add_dataRootAsTop(mt, v) ==
    IF AddDataFull(mt) THEN mt
    ELSE LET t1 == [mt.tree EXCEPT ![mt.depth][mt.index] = calculate_hash(v)]
             t2 == Propagate(t1, mt.index, mt.depth)
         IN  [mt EXCEPT !.data  = [mt.data EXCEPT ![mt.index] = v],
                        !.tree  = IF mt.index + 1 = Pow2(mt.depth)
                                  THEN [t2 EXCEPT ![0][0] = mt.root_hash]
                                  ELSE t2,
                        !.index = mt.index + 1]

\* Mutation: the cursor is not advanced.
add_dataSkipsCursor(mt, v) ==
    IF AddDataFull(mt) THEN mt
    ELSE LET t1 == [mt.tree EXCEPT ![mt.depth][mt.index] = calculate_hash(v)]
         IN  [mt EXCEPT !.data  = [mt.data EXCEPT ![mt.index] = v],
                        !.tree  = Propagate(t1, mt.index, mt.depth)]

\* Mutation: the value is not stored in the leaf store.
add_dataSkipsLeafStore(mt, v) ==
    IF AddDataFull(mt) THEN mt
    ELSE LET t1 == [mt.tree EXCEPT ![mt.depth][mt.index] = calculate_hash(v)]
         IN  [mt EXCEPT !.tree  = Propagate(t1, mt.index, mt.depth),
                        !.index = mt.index + 1]

\* add_data: the fields after the call.
add_data(mt, v) ==
    IF AddDataFull(mt) THEN mt
    ELSE LET t1 == [mt.tree EXCEPT ![mt.depth][mt.index] = calculate_hash(v)]
         IN  [mt EXCEPT !.data  = [mt.data EXCEPT ![mt.index] = v],
                        !.tree  = Propagate(t1, mt.index, mt.depth),
                        !.index = mt.index + 1]

\* Mutation: the flags of the two branches are exchanged.
RECURSIVE ProofLoopFlipped(_, _, _, _)
ProofLoopFlipped(p, t, i, d) ==
    IF d < 1 THEN p
    ELSE LET e == IF i % 2 = 0 THEN <<t[d][i + 1], FALSE>>
                               ELSE <<t[d][i - 1], TRUE>>
         IN  ProofLoopFlipped([p EXCEPT ![d + 1] = e], t, i \div 2, d - 1)

\* Mutation: the index is not halved between levels.
RECURSIVE ProofLoopNoHalve(_, _, _, _)
ProofLoopNoHalve(p, t, i, d) ==
    IF d < 1 THEN p
    ELSE LET e == IF i % 2 = 0 THEN <<t[d][i + 1], TRUE>>
                               ELSE <<t[d][i - 1], FALSE>>
         IN  ProofLoopNoHalve([p EXCEPT ![d + 1] = e], t, i, d - 1)

\* generate_proof, the loop "for d in (1..self.depth + 1).rev()".
RECURSIVE ProofLoop(_, _, _, _)
ProofLoop(p, t, i, d) ==
    IF d < 1 THEN p
    ELSE LET e == IF i % 2 = 0 THEN <<t[d][i + 1], TRUE>>
                               ELSE <<t[d][i - 1], FALSE>>
         IN  ProofLoop([p EXCEPT ![d + 1] = e], t, i \div 2, d - 1)

\* Mutation: proof[0] carries the digest stored at (0, 0).
ProofRootCurrent(mt) == <<mt.tree[0][0], TRUE>>

\* The entry generate_proof stores in proof[0].
ProofRoot(mt) == <<mt.root_hash, TRUE>>

\* Mutation: the cursor itself is accepted.
ProofRefusedOffByOne(mt, idx) == idx > mt.index

\* generate_proof refuses an index that was not appended.
ProofRefused(mt, idx) == idx >= mt.index

\* generate_proof: the vector returned.
generate_proof(mt, idx) ==
    IF ProofRefused(mt, idx) THEN <<>>
    ELSE LET p0 == [k \in 1..(mt.depth + 1) |-> <<ZeroDigest, FALSE>>]
             p1 == ProofLoop(p0, mt.tree, idx, mt.depth)
         IN  [p1 EXCEPT ![1] = ProofRoot(mt)]

\* Mutation: the two concatenation orders are exchanged.
RECURSIVE VerifyLoopSwapped(_, _, _)
VerifyLoopSwapped(hash, proof, d) ==
    IF d < 1 THEN hash
    ELSE LET h2 == IF proof[d + 1][2]
                   THEN calculate_hash(Format(proof[d + 1][1], hash))
                   ELSE calculate_hash(Format(hash, proof[d + 1][1]))
         IN  VerifyLoopSwapped(h2, proof, d - 1)

\* verify, the loop "for d in (1..self.depth + 1).rev()".
RECURSIVE VerifyLoop(_, _, _)
VerifyLoop(hash, proof, d) ==
    IF d < 1 THEN hash
    ELSE LET h2 == IF proof[d + 1][2]
                   THEN calculate_hash(Format(hash, proof[d + 1][1]))
                   ELSE calculate_hash(Format(proof[d + 1][1], hash))
         IN  VerifyLoop(h2, proof, d - 1)

\* verify indexes proof[depth] .. proof[1] and then proof[0]: a shorter
\* vector makes the indexing panic.
VerifyPanics(mt, proof) == Len(proof) < mt.depth + 1


\* Mutation: the folded digest is compared with the digest stored at (0, 0).
verifyAgainstTop(mt, v, proof) ==
    IF VerifyPanics(mt, proof) THEN "panic"
    ELSE IF VerifyLoop(calculate_hash(v), proof, mt.depth) = mt.tree[0][0]
         THEN "true" ELSE "false"

\* verify: "panic", or the boolean returned.
verify(mt, v, proof) ==
    IF VerifyPanics(mt, proof) THEN "panic"
    ELSE IF VerifyLoop(calculate_hash(v), proof, mt.depth) = proof[1][1]
         THEN "true" ELSE "false"

-----------------------------------------------------------------------------
\* The proof vectors handed to verify: what generate_proof returns for every
\* index 0..capacity (the empty vector among them), and each of these with
\* one more entry pushed.
ProofInputs(mt) ==
    LET gen == {generate_proof(mt, i) : i \in 0..Pow2(mt.depth)}
    IN  gen \cup {Append(p, <<ZeroDigest, FALSE>>) : p \in gen}

\* The calls that have started and not returned, with their locals: an
\* add_data and a generate_proof.  Where every call is one step, none is
\* ever in flight.
NoCalls == [add |-> [pc |-> "idle"], proof |-> [pc |-> "idle"]]

\* A panic ends the program.
Panicked == ret.op = "verify" /\ ret.val = "panic"

Init ==
    /\ depth \in 0..MaxDepth
    /\ root_hash \in DeclaredRoots(depth)
    /\ data = NewData(depth)
    /\ tree = NewTree(depth)
    /\ index = 0
    /\ ret = [op |-> "new"]
    /\ calls = NoCalls

AddData(v) ==
    /\ ~Panicked
    /\ LET mt == add_data(Self, v)
       IN  /\ depth' = mt.depth
           /\ root_hash' = mt.root_hash
           /\ data' = mt.data
           /\ tree' = mt.tree
           /\ index' = mt.index
    /\ ret' = [op |-> "add_data", data |-> v]
    /\ UNCHANGED calls

\* Mutation: generate_proof refreshes the declared root from the tree.
GenerateProofRefreshesRoot(i) ==
    /\ ~Panicked
    /\ ret' = [op |-> "generate_proof", index |-> i, val |-> generate_proof(Self, i)]
    /\ root_hash' = tree[0][0]
    /\ UNCHANGED <<depth, data, tree, index, calls>>


GenerateProof(i) ==
    /\ ~Panicked
    /\ ret' = [op |-> "generate_proof", index |-> i, val |-> generate_proof(Self, i)]
    /\ UNCHANGED <<depth, root_hash, data, tree, index, calls>>

Verify(v, proof) ==
    /\ ~Panicked
    /\ ret' = [op |-> "verify", data |-> v, proof |-> proof,
               val |-> verify(Self, v, proof)]
    /\ UNCHANGED <<depth, root_hash, data, tree, index, calls>>

Next ==
    \/ \E v \in Values : AddData(v)
    \/ \E i \in 0..Pow2(depth) : GenerateProof(i)
    \/ \E v \in Values : \E proof \in ProofInputs(Self) : Verify(v, proof)

Spec == Init /\ [][Next]_vars

-----------------------------------------------------------------------------
\* Shorthands of the properties below.
Capacity == Pow2(depth)

Appended == 0..(index - 1)

Full == index = Capacity

\* verify(value, generate_proof(i)) on the current tree.
VerifyAt(v, i) == verify(Self, v, generate_proof(Self, i))

-----------------------------------------------------------------------------
\* C1 as stated: for every depth and every in-order sequence of appends, also
\* on a partially filled tree and whatever root was declared,
\* verify(value_i, generate_proof(i)) is true for every appended index i.
C1_RoundTripAnyState ==
    \A i \in Appended : VerifyAt(data[i], i) = "true"

\* C1 as amended: once the tree is full and the declared root equals the
\* digest stored at (0, 0), verify(value_i, generate_proof(i)) is true for
\* every index i.
C1_RoundTripFullTree ==
    (Full /\ root_hash = tree[0][0]) =>
        \A i \in Appended : VerifyAt(data[i], i) = "true"

\* A full tree of depth >= 1 whose declared root is its root digest, on which
\* verify has just returned true.
C1_Witness ==
    /\ Full /\ root_hash = tree[0][0] /\ depth >= 1
    /\ ret.op = "verify" /\ ret.val = "true"

\* C2: a tree of depth D declared with the Merkle root of v_0..v_(2^D-1) and
\* filled with these values in order verifies every (v_i, generate_proof(i)).
C2_FullTreeRoundTrip ==
    (Full /\ root_hash = MerkleRoot(data, depth)) =>
        \A i \in 0..(Capacity - 1) : VerifyAt(data[i], i) = "true"

\* A full tree of the largest depth, holding both values, declared with the
\* Merkle root of its values, on which verify has just returned true.
C2_Witness ==
    /\ Full /\ depth = MaxDepth /\ root_hash = MerkleRoot(data, depth)
    /\ \E i, j \in Appended : data[i] # data[j]
    /\ ret.op = "verify" /\ ret.val = "true" /\ Len(ret.proof) = depth + 1

\* C3 as stated: for every appended index i and every value w other than
\* value_i, verify(w, generate_proof(i)) is false.
C3_WrongValueRejected ==
    \A i \in Appended : \A w \in Values \ {data[i]} :
        VerifyAt(w, i) = "false"

\* C3 as amended: for every appended index i whose own value verifies against
\* generate_proof(i), every other value w is rejected against that proof.
C3_WrongValueRejectedWhenRightAccepted ==
    \A i \in Appended : \A w \in Values \ {data[i]} :
        VerifyAt(data[i], i) = "true" => VerifyAt(w, i) = "false"

\* A tree of depth >= 1 where the value at an index verifies against the proof
\* of that index and verify has just rejected another value against it.
C3_Witness ==
    /\ depth >= 1 /\ ret.op = "verify" /\ ret.val = "false"
    /\ \E i \in Appended :
          /\ ret.proof = generate_proof(Self, i)
          /\ ret.data # data[i]
          /\ VerifyAt(data[i], i) = "true"

\* C4 as stated: for appended indices i # i2, verify(value_i,
\* generate_proof(i2)) is false, also when values repeat.
C4_WrongProofRejected ==
    \A i, i2 \in Appended :
        i # i2 => VerifyAt(data[i], i2) = "false"

\* C4 as amended: in a full tree whose declared root is its root digest, for
\* indices i # i2, verify(value_i, generate_proof(i2)) is false exactly when
\* value_i differs from value_i2 (and true when the two values are equal).
C4_WrongProofRejectedIffValuesDiffer ==
    (Full /\ root_hash = tree[0][0]) =>
        \A i, i2 \in Appended :
            i # i2 => (VerifyAt(data[i], i2) = "false" <=> data[i] # data[i2])

\* A full tree holding two different values, declared with its root digest,
\* where verify has just rejected value_i against the proof of another index.
C4_Witness ==
    /\ Full /\ root_hash = tree[0][0] /\ depth >= 1
    /\ ret.op = "verify" /\ ret.val = "false"
    /\ \E i, i2 \in Appended :
          /\ i # i2 /\ data[i] # data[i2]
          /\ ret.data = data[i]
          /\ ret.proof = generate_proof(Self, i2)

\* C5: after exactly capacity appends the digest at (0, 0) is the Merkle root
\* computed from scratch over the appended values, and every internal node
\* (d, i) is the hash of the concatenation of its two children.
C5_RootCorrectAtCapacity ==
    Full =>
        /\ tree[0][0] = MerkleRoot(data, depth)
        /\ \A d \in 0..(depth - 1) : \A i \in 0..(Pow2(d) - 1) :
              tree[d][i] = calculate_hash(Format(tree[d + 1][2 * i],
                                                 tree[d + 1][2 * i + 1]))

\* The capacity-th append has just filled a tree of the largest depth whose
\* leaves are not all equal.
C5_Witness ==
    /\ Full /\ depth = MaxDepth /\ ret.op = "add_data"
    /\ ret.data = data[Capacity - 1]
    /\ \E i, j \in Appended : data[i] # data[j]

\* C6: add_data called with next_index = capacity is a no-op: every level
\* digest, the leaf store, the cursor and the declared root are the same
\* before and after the call.
C6_AddDataAtCapacityNoOp ==
    [][(ret'.op = "add_data" /\ index = Pow2(depth)) =>
          UNCHANGED <<depth, root_hash, data, tree, index>>]_vars

\* add_data has just been refused on a full tree: the value passed is not the
\* one the last slot holds.
C6_Witness ==
    /\ Full /\ depth >= 1 /\ ret.op = "add_data"
    /\ ret.data # data[Capacity - 1]

\* C7: generate_proof(index) with index >= next_index returns the empty
\* vector (length 0), in every reachable state, and changes no state.
C7_UnpopulatedIndexEmptyProof ==
    [][ret'.op = "generate_proof" =>
          /\ UNCHANGED <<depth, root_hash, data, tree, index>>
          /\ (ret'.index >= index => Len(ret'.val) = 0)]_vars

\* generate_proof has just been refused at the cursor of a tree that holds
\* at least one value.
C7_Witness ==
    /\ ret.op = "generate_proof" /\ index >= 1 /\ ret.index = index
    /\ ret.val = <<>>

\* C8: for any proof whose length is not depth + 1 (the empty proof of an
\* unpopulated index, a proof with extra entries), verify returns false and
\* does not raise.
C8_VerifyNeverFaults ==
    (ret.op = "verify" /\ Len(ret.proof) # depth + 1) => ret.val = "false"

\* C9: for every appended index, generate_proof(index) has length depth + 1
\* and, for each level d in 1..depth with a = index div 2^(depth - d),
\* proof[d] is (digest(d, a + 1), true) when a is even and
\* (digest(d, a - 1), false) when a is odd.
C9_ProofStructure ==
    \A i \in Appended :
        LET proof == generate_proof(Self, i)
        IN  /\ Len(proof) = depth + 1
            /\ \A d \in 1..depth :
                  LET a == i \div Pow2(depth - d)
                  IN  proof[d + 1] = IF a % 2 = 0
                                     THEN <<tree[d][a + 1], TRUE>>
                                     ELSE <<tree[d][a - 1], FALSE>>

\* generate_proof has just returned the proof of an odd appended index of a
\* tree of the largest depth.
C9_Witness ==
    /\ depth = MaxDepth /\ ret.op = "generate_proof"
    /\ ret.index < index /\ ret.index % 2 = 1
    /\ Len(ret.val) = depth + 1

\* C10 as stated: for every appended index, generate_proof(index)[0] is the
\* digest currently stored at (0, 0), with the boolean true.
C10_ProofZeroIsCurrentRoot ==
    \A i \in Appended : generate_proof(Self, i)[1] = <<tree[0][0], TRUE>>

\* C10 as amended: for every appended index, generate_proof(index)[0] is the
\* declared root passed to the constructor (the root_hash field), with the
\* boolean true.
C10_ProofZeroIsDeclaredRoot ==
    \A i \in Appended : generate_proof(Self, i)[1] = <<root_hash, TRUE>>

\* generate_proof has just returned a proof on a tree whose declared root is
\* not the digest stored at (0, 0).
C10_Witness ==
    /\ ret.op = "generate_proof" /\ ret.index < index
    /\ root_hash # tree[0][0]
    /\ ret.val[1] = <<root_hash, TRUE>>

\* C11: for every depth >= 0, MerkleTree::new(depth, root) yields
\* next_index = 0, exactly depth + 1 levels with level d holding 2^d digests,
\* every leaf-level digest equal to Hash(EMPTY), and every internal node equal
\* to the hash of the concatenation of its two children.
C11_Construction ==
    ret.op = "new" =>
        /\ index = 0
        /\ DOMAIN tree = 0..depth
        /\ \A d \in 0..depth : DOMAIN tree[d] = 0..(Pow2(d) - 1)
        /\ \A i \in 0..(Pow2(depth) - 1) : tree[depth][i] = calculate_hash(EMPTY)
        /\ \A d \in 0..(depth - 1) : \A i \in 0..(Pow2(d) - 1) :
              tree[d][i] = calculate_hash(Format(tree[d + 1][2 * i],
                                                 tree[d + 1][2 * i + 1]))

\* A freshly constructed tree of the largest depth.
C11_Witness ==
    ret.op = "new" /\ depth = MaxDepth /\ index = 0

\* C14: the declared root is stored as passed, also when it differs from the
\* computed empty-tree root, and no add_data, generate_proof or verify call
\* changes it.
C14_DeclaredRootInert ==
    [][root_hash' = root_hash]_vars

\* A tree declared with a root that is neither its root digest nor the
\* empty-tree root has been filled, and the declared root is still 0.
C14_Witness ==
    /\ Full /\ depth >= 1 /\ ret.op = "add_data"
    /\ root_hash = ZeroDigest
    /\ root_hash # tree[0][0] /\ root_hash # NewTree(depth)[0][0]

\* C15: with depth = 0 the capacity is 1; the one append of v leaves the
\* digest at (0, 0) equal to Hash(v), and a second append is rejected and
\* leaves it equal to Hash(v).
C15_DepthZero ==
    [][(depth = 0 /\ ret'.op = "add_data") =>
          /\ Pow2(depth) = 1
          /\ index = 0 => (index' = 1 /\ tree'[0][0] = calculate_hash(ret'.data))
          /\ index = 1 => /\ index' = 1
                          /\ tree[0][0] = calculate_hash(data[0])
                          /\ tree'[0][0] = tree[0][0]
                          /\ data'[0] = data[0]]_vars

\* On a tree of depth 0 holding "2", an append of "" has just been rejected.
C15_Witness ==
    /\ depth = 0 /\ index = 1 /\ ret.op = "add_data"
    /\ ret.data # data[0] /\ tree[0][0] = calculate_hash(data[0])

\* A second tree: constructed with depth dep and declared root root, then fed
\* the first n values of vals in order.
RECURSIVE Replay(_, _, _, _)
Replay(dep, root, vals, n) ==
    IF n = 0 THEN new(dep, root)
    ELSE add_data(Replay(dep, root, vals, n - 1), vals[n - 1])

\* C16: two trees constructed with the same depth and fed the same sequence of
\* appends hold identical digests at every (level, index) after every prefix
\* of the sequence, whatever declared roots they were given.
C16_Determinism ==
    \A root \in {ZeroDigest, MerkleRoot(data, depth)} :
        Replay(depth, root, data, index).tree = tree

\* A tree of depth >= 1 has been filled with values that are not all equal,
\* under a declared root different from both roots of the second tree.
C16_Witness ==
    /\ Full /\ depth >= 1 /\ ret.op = "add_data"
    /\ root_hash \notin {ZeroDigest, MerkleRoot(data, depth)}
    /\ \E i, j \in Appended : data[i] # data[j]

\* C17: 0 <= next_index <= capacity in every reachable state; next_index
\* never decreases; a successful add_data increases it by exactly 1, and a
\* rejected add_data, generate_proof and verify leave it unchanged.
C17_Cursor ==
    [][/\ 0 <= index /\ index <= Pow2(depth)
       /\ 0 <= index' /\ index' <= Pow2(depth')
       /\ index' >= index
       /\ (ret'.op = "add_data" /\ index < Pow2(depth)) => index' = index + 1
       /\ (ret'.op = "add_data" /\ index = Pow2(depth)) => index' = index
       /\ ret'.op \in {"generate_proof", "verify"} => index' = index]_vars

\* The cursor has reached the capacity of a tree of the largest depth by the
\* last successful append.
C17_Witness ==
    /\ depth = MaxDepth /\ index = Pow2(depth) /\ ret.op = "add_data"
    /\ ret.data = data[index - 1]

\* C18: in every reachable state, every leaf position i with
\* next_index <= i < capacity holds the digest Hash(EMPTY).
C18_PlaceholderLeaves ==
    \A i \in index..(Pow2(depth) - 1) : tree[depth][i] = calculate_hash(EMPTY)

\* A non-empty value has been appended to a tree that still has free leaves.
C18_Witness ==
    /\ depth >= 1 /\ index >= 1 /\ index < Pow2(depth)
    /\ ret.op = "add_data" /\ data[index - 1] # EMPTY

\* C19: for every i < next_index the leaf store at i holds the i-th appended
\* value and the digest at (depth, i) is the hash of that value; no later
\* operation changes either.
C19_AppendOnlyLeaves ==
    [][/\ (ret'.op = "add_data" /\ index < Pow2(depth)) =>
              data'[index] = ret'.data
       /\ \A i \in 0..(index' - 1) : tree'[depth][i] = calculate_hash(data'[i])
       /\ \A i \in 0..(index - 1) :
              data'[i] = data[i] /\ tree'[depth'][i] = tree[depth][i]]_vars

\* A second, different value has been appended after a first one.
C19_Witness ==
    /\ index >= 2 /\ ret.op = "add_data"
    /\ ret.data = data[index - 1] /\ data[index - 1] # data[index - 2]

\* C20: in every state between operations, every internal node (d, i) with
\* d < depth whose whole leaf range is appended
\* (next_index >= (i + 1) * 2^(depth - d)) is the hash of the concatenation
\* of its two children.
C20_FinalizedSubtree ==
    \A d \in 0..(depth - 1) : \A i \in 0..(Pow2(d) - 1) :
        index >= (i + 1) * Pow2(depth - d) =>
            tree[d][i] = calculate_hash(Format(tree[d + 1][2 * i],
                                               tree[d + 1][2 * i + 1]))

\* In a tree of the largest depth that is not full, the first node above the
\* leaves is finalized and no longer holds its construction digest.
C20_Witness ==
    /\ depth = MaxDepth /\ depth >= 2 /\ index >= 2 /\ index < Pow2(depth)
    /\ tree[depth - 1][0] # NewTree(depth)[depth - 1][0]

-----------------------------------------------------------------------------
(***************************************************************************)
(* The contract draft (src/contract/lib.rs).  The same variables hold the  *)
(* storage of the ink! contract: data is the Vec<Balance> grown by push,   *)
(* tree the Vec of level rows.  A Balance is kept as its decimal numeral;  *)
(* its SCALE encoding is tagged 0 so that it differs from the encoding of  *)
(* a Hash, and Sha2x256 is an injective function of the encoded bytes.     *)
(***************************************************************************)

\* The balances a caller passes: 0 (also the placeholder), 10 and 11.
Balances == {<<0>>, <<1, 0>>, <<1, 1>>}

\* Vec::len and Vec::push on a vector kept as a function on 0..len-1.
VecLen(v) == Cardinality(DOMAIN v)

VecPush(v, x) == [k \in 0..VecLen(v) |-> IF k \in DOMAIN v THEN v[k] ELSE x]

EmptyVec == [k \in {} |-> 0]

\* ink_env::hash_encoded::<Sha2x256, _>(input, &mut output): the value left
\* in output, for the encoded bytes of the input.
hash_encoded(bytes) == <<1>> \o bytes

\* The contract's calculate_hash(data: Balance).
contract_calculate_hash(b) == hash_encoded(<<0>> \o b)

\* The contract's concat_hash: both calls write the same output buffer, and
\* the buffer after the second call is returned.
concat_hash(h1, h2) ==
    LET output1 == hash_encoded(h1)
        output2 == hash_encoded(h2)
    IN  output2

\* The fields of the contract's storage after a panic-free call, or the
\* panic of an index out of bounds.
Ok(mt) == [panic |-> FALSE, mt |-> mt]

Panic(mt) == [panic |-> TRUE, mt |-> mt]

\* new, the body of "for d in (0..depth).rev()" at level d: the row indexes
\* mt.tree[d + 1][2 * i] and mt.tree[d + 1][2 * i + 1].
ContractRowPanics(t, d) ==
    \E i \in 0..(Pow2(d) - 1) :
        \/ (d + 1) \notin DOMAIN t
        \/ (2 * i) \notin DOMAIN t[d + 1]
        \/ (2 * i + 1) \notin DOMAIN t[d + 1]

ContractRow(t, d) ==
    [i \in 0..(Pow2(d) - 1) |-> concat_hash(t[d + 1][2 * i], t[d + 1][2 * i + 1])]

\* new, the loop "for d in (0..depth).rev()": every row is pushed at the end
\* of mt.tree.
RECURSIVE ContractBuild(_, _)
ContractBuild(t, d) ==
    IF d < 0 THEN Ok(t)
    ELSE IF ContractRowPanics(t, d) THEN Panic(t)
    ELSE ContractBuild(VecPush(t, ContractRow(t, d)), d - 1)

\* The contract's constructor new(depth, root_hash).
contract_new(dep, root) ==
    LET root_row == VecPush(EmptyVec, contract_calculate_hash(<<0>>))
        built    == ContractBuild(VecPush(EmptyVec, root_row), dep - 1)
        mt       == [depth |-> dep, root_hash |-> root, data |-> EmptyVec,
                     tree |-> built.mt, index |-> 0]
    IN  IF built.panic THEN Panic(mt) ELSE Ok(mt)

\* The contract's add_data, the loop "while i % 2 == 1".
RECURSIVE ContractPropagate(_, _, _)
ContractPropagate(t, i, d) ==
    IF i % 2 = 1
    THEN LET i2 == i \div 2
             d2 == d - 1
         IN  ContractPropagate(
                 [t EXCEPT ![d2][i2] = concat_hash(t[d2 + 1][2 * i2],
                                                   t[d2 + 1][2 * i2 + 1])],
                 i2, d2)
    ELSE t

\* The contract's add_data(data): self.tree[self.depth][self.index] must
\* exist.
contract_add_data(mt, v) ==
    IF mt.index = Pow2(mt.depth) THEN Ok(mt)
    ELSE IF \/ mt.depth \notin DOMAIN mt.tree
            \/ mt.index \notin DOMAIN mt.tree[mt.depth]
    THEN Panic(mt)
    ELSE LET t1 == [mt.tree EXCEPT ![mt.depth][mt.index] =
                        contract_calculate_hash(v)]
         IN  Ok([mt EXCEPT !.data  = VecPush(mt.data, v),
                           !.tree  = ContractPropagate(t1, mt.index, mt.depth),
                           !.index = mt.index + 1])

\* The contract's generate_proof, the loop
\* "for d in (1..self.depth + 1).rev()": every element is pushed at the end
\* of proof.
RECURSIVE ContractProofLoop(_, _, _, _)
ContractProofLoop(proof, t, i, d) ==
    IF d < 1 THEN proof
    ELSE LET elem == IF i % 2 = 0 THEN <<t[d][i + 1], TRUE>>
                                  ELSE <<t[d][i - 1], FALSE>>
         IN  ContractProofLoop(Append(proof, elem), t, i \div 2, d - 1)

\* The contract's generate_proof(index): the vector returned.
contract_generate_proof(mt, idx) ==
    IF idx >= mt.index THEN <<>>
    ELSE ContractProofLoop(<<<<mt.root_hash, TRUE>>>>, mt.tree, idx, mt.depth)

\* The contract's verify, the loop "for d in (1..self.depth + 1).rev()".
RECURSIVE ContractVerifyLoop(_, _, _)
ContractVerifyLoop(hash, proof, d) ==
    IF d < 1 THEN hash
    ELSE LET h2 == IF proof[d + 1][2]
                   THEN concat_hash(hash, proof[d + 1][1])
                   ELSE concat_hash(proof[d + 1][1], hash)
         IN  ContractVerifyLoop(h2, proof, d - 1)

\* The contract's verify(data, index): "panic" when proof[d] or proof[0] is
\* out of bounds, or the boolean returned.
contract_verify(mt, v, idx) ==
    LET proof == contract_generate_proof(mt, idx)
    IN  IF Len(proof) < mt.depth + 1 THEN "panic"
        ELSE IF ContractVerifyLoop(contract_calculate_hash(v), proof, mt.depth)
                    = proof[1][1]
             THEN "true" ELSE "false"

\* The root hashes a caller deploys with: the hash of a balance (what the
\* test passes, lib.rs:157-163) or the zero hash.
ContractRoots == {contract_calculate_hash(b) : b \in Balances} \cup {ZeroDigest}

\* Before instantiation: the arguments of the constructor are chosen.
ContractInit ==
    /\ depth \in 0..MaxDepth
    /\ root_hash \in ContractRoots
    /\ data = EmptyVec
    /\ tree = EmptyVec
    /\ index = 0
    /\ ret = [op |-> "deploy"]
    /\ calls = NoCalls

\* A panic of the constructor leaves no contract to call.
ContractLive == ret.op # "deploy" /\ ~(ret.op = "new" /\ ret.val = "panic")

ContractNew ==
    /\ ret.op = "deploy"
    /\ LET r == contract_new(depth, root_hash)
       IN  /\ tree' = IF r.panic THEN tree ELSE r.mt.tree
           /\ ret' = [op |-> "new", val |-> IF r.panic THEN "panic" ELSE "ok"]
    /\ UNCHANGED <<depth, root_hash, data, index, calls>>

\* A message that panics is reverted: the storage is unchanged.
ContractAddData(v) ==
    /\ ContractLive
    /\ LET r == contract_add_data(Self, v)
       IN  /\ data' = r.mt.data
           /\ tree' = r.mt.tree
           /\ index' = r.mt.index
           /\ ret' = [op |-> "add_data", data |-> v,
                      val |-> IF r.panic THEN "panic" ELSE "ok"]
    /\ UNCHANGED <<depth, root_hash, calls>>

ContractVerify(v, i) ==
    /\ ContractLive
    /\ ret' = [op |-> "verify", data |-> v, index |-> i,
               val |-> contract_verify(Self, v, i)]
    /\ UNCHANGED <<depth, root_hash, data, tree, index, calls>>

ContractNext ==
    \/ ContractNew
    \/ \E v \in Balances : ContractAddData(v)
    \/ \E v \in Balances : \E i \in 0..Pow2(depth) : ContractVerify(v, i)

ContractSpec == ContractInit /\ [][ContractNext]_vars

\* C12: for every depth >= 0 the contract's constructor completes without an
\* out-of-range index access and yields depth + 1 level arrays in which
\* tree[d] holds 2^d digests.
C12_ContractConstruction ==
    ret.op = "new" =>
        /\ ret.val = "ok"
        /\ DOMAIN tree = 0..depth
        /\ \A d \in 0..depth : DOMAIN tree[d] = 0..(Pow2(d) - 1)

-----------------------------------------------------------------------------
\* A storage with depth + 1 well-formed levels, as the construction is
\* documented: level dep holds 2^dep placeholder digests and every level
\* above holds the concat_hash of its children.
RECURSIVE ContractLevels(_, _, _)
ContractLevels(t, dep, d) ==
    IF d < 0 THEN t
    ELSE LET row == [i \in 0..(Pow2(d) - 1) |->
                        concat_hash(t[d + 1][2 * i], t[d + 1][2 * i + 1])]
             t2  == [x \in 0..dep |-> IF x = d THEN row ELSE t[x]]
         IN  ContractLevels(t2, dep, d - 1)

ContractWellFormed(dep) ==
    LET leaves == [i \in 0..(Pow2(dep) - 1) |-> contract_calculate_hash(<<0>>)]
        t0     == [x \in 0..dep |-> IF x = dep THEN leaves ELSE EmptyVec]
    IN  ContractLevels(t0, dep, dep - 1)

\* The inputs of generate_proof: every storage reached by add_data from a
\* storage with well-formed levels.
ContractProofInit ==
    /\ depth \in 0..MaxDepth
    /\ tree = ContractWellFormed(depth)
    /\ root_hash \in {ZeroDigest, tree[0][0]}
    /\ data = EmptyVec
    /\ index = 0
    /\ ret = [op |-> "state"]
    /\ calls = NoCalls

ContractGenerateProof(i) ==
    /\ ret' = [op |-> "generate_proof", index |-> i,
               val |-> contract_generate_proof(Self, i)]
    /\ UNCHANGED <<depth, root_hash, data, tree, index, calls>>

ContractProofNext ==
    \/ \E v \in Balances : ContractAddData(v)
    \/ \E i \in 0..Pow2(depth) : ContractGenerateProof(i)
    \/ \E v \in Balances : \E i \in 0..Pow2(depth) : ContractVerify(v, i)

ContractProofSpec == ContractProofInit /\ [][ContractProofNext]_vars

-----------------------------------------------------------------------------
\* The leaf range of node (d, i) is not yet fully appended.
Unfinished(d, i) == index < (i + 1) * Pow2(depth - d)

\* C21: between operations, every internal node whose leaf range is not yet
\* fully appended holds the digest new gave it from all-placeholder
\* children; so for depth >= 1 the digest at (0, 0) is the constructed one
\* until the append that fills the tree.
C21_StaleAncestors ==
    /\ \A d \in 0..(depth - 1) : \A i \in 0..(Pow2(d) - 1) :
          Unfinished(d, i) => tree[d][i] = NewTree(depth)[d][i]
    /\ (depth >= 1 /\ ~Full) => tree[0][0] = NewTree(depth)[0][0]

\* A non-placeholder leaf was appended below a node that is still unfinished.
C21_Witness ==
    /\ depth >= 1
    /\ index >= 1
    /\ ~Full
    /\ \E i \in Appended : tree[depth][i] # NewTree(depth)[depth][i]

-----------------------------------------------------------------------------
\* C25: generate_proof and verify, whatever they return, leave the level
\* digests, the leaf store, the cursor and the declared root as they were.
C25_ReadOnlyQueries ==
    [][ret'.op \in {"generate_proof", "verify"} =>
          /\ tree' = tree
          /\ data' = data
          /\ index' = index
          /\ root_hash' = root_hash
          /\ depth' = depth]_vars

\* A refused proof request and a failed verification, both after an append.
C25_Witness ==
    /\ index >= 1
    /\ \/ ret.op = "generate_proof" /\ ret.val = <<>>
       \/ ret.op = "verify" /\ ret.val = "false"

-----------------------------------------------------------------------------
\* The fold of the claim: h(depth + 1) = Hash(value), and h(d) is obtained
\* from h(d + 1) and proof[d]; Fold(v, proof, dep, d) is h(d).
RECURSIVE Fold(_, _, _, _)
Fold(v, proof, dep, d) ==
    IF d = dep + 1 THEN calculate_hash(v)
    ELSE LET h == Fold(v, proof, dep, d + 1)
         IN  IF proof[d + 1][2]
             THEN calculate_hash(Format(h, proof[d + 1][1]))
             ELSE calculate_hash(Format(proof[d + 1][1], h))

\* The proof with the flag of proof[0] negated.
FlipRootFlag(proof) == [proof EXCEPT ![1] = <<proof[1][1], ~proof[1][2]>>]

\* C26: for a proof of length depth + 1, verify returns true exactly when
\* h(1) of the fold equals the digest of proof[0]; the result is the same
\* with the flag of proof[0] negated and on a tree holding other digests.
C26_VerifyIsFold ==
    (ret.op = "verify" /\ Len(ret.proof) = depth + 1) =>
        /\ ret.val \in {"true", "false"}
        /\ ret.val = "true" <=>
               Fold(ret.data, ret.proof, depth, 1) = ret.proof[1][1]
        /\ verify(Self, ret.data, FlipRootFlag(ret.proof)) = ret.val
        /\ verify(new(depth, root_hash), ret.data, ret.proof) = ret.val

\* verify accepted a full-length proof on a tree whose digest at (0, 0) is
\* not the digest of proof[0].
C26_Witness ==
    /\ ret.op = "verify"
    /\ depth >= 1
    /\ Len(ret.proof) = depth + 1
    /\ ret.val = "true"
    /\ tree[0][0] # ret.proof[1][1]


-----------------------------------------------------------------------------
\* The node (d, i) of the contract's storage holds concat_hash of the two
\* digests now stored below it: its leaf range is fully appended, or no leaf
\* of it was appended.
ContractComputed(d, i) ==
    \/ (i + 1) * Pow2(depth - d) <= index
    \/ index <= i * Pow2(depth - d)

-----------------------------------------------------------------------------
\* Largest digest given to the pair encoding.
MaxDigest == 12

\* Display for u64, as format! applies it: the decimal numeral of n.
RECURSIVE Decimal(_)
Decimal(n) == IF n < 10 THEN <<n>> ELSE Decimal(n \div 10) \o <<n % 10>>

\* The pair encoding on its own: the hash input of a parent is built from
\* two u64 digests.
FormatInit ==
    /\ depth = 0
    /\ root_hash = ZeroDigest
    /\ data = NewData(0)
    /\ tree = NewTree(0)
    /\ index = 0
    /\ ret = [op |-> "new"]
    /\ calls = NoCalls

FormatPair(l, r) ==
    /\ ret' = [op |-> "format", l |-> l, r |-> r,
               val |-> Format(Decimal(l), Decimal(r))]
    /\ UNCHANGED <<depth, root_hash, data, tree, index, calls>>

FormatNext == \E l \in 0..MaxDigest : \E r \in 0..MaxDigest : FormatPair(l, r)

FormatSpec == FormatInit /\ [][FormatNext]_vars

\* C30: the hash input built from the children digests (l, r), the decimal
\* text of l followed by the decimal text of r, is built from no other pair
\* of digests of the range.
C30_UnambiguousPairs ==
    ret.op = "format" =>
        \A l \in 0..MaxDigest : \A r \in 0..MaxDigest :
            <<l, r>> # <<ret.l, ret.r>> =>
                Format(Decimal(l), Decimal(r)) # ret.val


-----------------------------------------------------------------------------
\* add_data and generate_proof taken statement by statement.  calls.add and
\* calls.proof hold the position (pc) and the locals of the call in flight;
\* a step that returns nothing leaves [op |-> "step"] in ret.  Three fields
\* are history only: written lists the slots of tree an add_data has
\* assigned, acc holds the slots of tree the last step indexed, and start is
\* the struct on entry.  A generate_proof records in pre the struct before
\* the add_data it overlaps (the current struct when there is none), in data
\* that add_data's argument and in overlaps how many add_data calls it has
\* overlapped, counted up to 2.

\* tree[d][k] exists; any other index makes the indexing panic.
InRange(slot) ==
    /\ slot[1] \in 0..depth
    /\ slot[2] \in 0..(Pow2(slot[1]) - 1)

\* Mutation: the leaf digest is always stored in the first slot.
LeafSlotFirst(mt) == <<mt.depth, 0>>

\* add_data stores the leaf digest at tree[depth][index].
LeafSlot(mt) == <<mt.depth, mt.index>>

\* Mutation: the loop runs whatever the index is.
PropagateTestAlways(i) == TRUE

\* Mutation: the loop never runs.
PropagateTestNever(i) == FALSE

\* add_data, the loop condition "while i % 2 == 1".
PropagateTest(i) == i % 2 = 1

\* Mutation: the index is not halved.
ParentSlotSameIndex(d, i) == <<d - 1, i>>

\* add_data, the loop's "i /= 2; d -= 1": the slot recomputed next.
ParentSlot(d, i) == <<d - 1, i \div 2>>

\* Mutation: the node on the path is read instead of its sibling.
ProofEntryOwn(i) == <<i, i % 2 = 0>>

\* generate_proof, one level: the index read at that level and the flag
\* stored with it.
ProofEntry(i) == IF i % 2 = 0 THEN <<i + 1, TRUE>> ELSE <<i - 1, FALSE>>

\* The declared root of the stepwise runs: a digest that is the root of no
\* sequence of values.  No step but the last of generate_proof reads it.
StepRoots(dep) == {ZeroDigest}

StepInit ==
    /\ depth \in 0..MaxDepth
    /\ root_hash \in StepRoots(depth)
    /\ data = NewData(depth)
    /\ tree = NewTree(depth)
    /\ index = 0
    /\ ret = [op |-> "new"]
    /\ calls = NoCalls

\* A panic ends the program.
StepLive == calls.add.pc # "panic" /\ calls.proof.pc # "panic"

\* add_data is entered: the capacity test.
AddCall(v) ==
    /\ StepLive
    /\ calls.add.pc = "idle"
    /\ IF AddDataFull(Self)
       THEN /\ ret' = [op |-> "add_data", data |-> v, accepted |-> FALSE,
                       written |-> <<>>, start |-> Self, iters |-> 0]
            /\ calls' = calls
       ELSE /\ ret' = [op |-> "step"]
            /\ calls' =
                 [add   |-> [pc |-> "store", data |-> v, i |-> index,
                             d |-> depth, iters |-> 0, written |-> <<>>,
                             acc |-> {}, start |-> Self],
                  proof |-> IF calls.proof.pc = "loop"
                            THEN [calls.proof EXCEPT
                                    !.overlaps = IF @ < 2 THEN @ + 1 ELSE @,
                                    !.data = IF calls.proof.overlaps = 0
                                             THEN v ELSE @]
                            ELSE calls.proof]
    /\ UNCHANGED <<depth, root_hash, data, tree, index>>

\* self.data[self.index].data = data
AddStore ==
    /\ StepLive
    /\ calls.add.pc = "store"
    /\ data' = [data EXCEPT ![index] = calls.add.data]
    /\ calls' = [calls EXCEPT !.add.pc = "leaf"]
    /\ ret' = [op |-> "step"]
    /\ UNCHANGED <<depth, root_hash, tree, index>>

\* self.tree[self.depth][self.index].hash = calculate_hash(..); let mut i,
\* let mut d
AddLeaf ==
    /\ StepLive
    /\ calls.add.pc = "leaf"
    /\ LET s == LeafSlot(Self)
       IN  IF InRange(s)
           THEN /\ tree' = [tree EXCEPT ![s[1]][s[2]] =
                                           calculate_hash(calls.add.data)]
                /\ calls' = [calls EXCEPT !.add.pc = "loop",
                                          !.add.i = index,
                                          !.add.d = depth,
                                          !.add.written = Append(@, s),
                                          !.add.acc = {s}]
           ELSE /\ tree' = tree
                /\ calls' = [calls EXCEPT !.add.pc = "panic",
                                          !.add.acc = {s}]
    /\ ret' = [op |-> "step"]
    /\ UNCHANGED <<depth, root_hash, data, index>>

\* One iteration of "while i % 2 == 1": the parent is recomputed from its
\* two children.
AddLoop ==
    /\ StepLive
    /\ calls.add.pc = "loop"
    /\ PropagateTest(calls.add.i)
    /\ LET p    == ParentSlot(calls.add.d, calls.add.i)
           used == {<<p[1] + 1, 2 * p[2]>>, <<p[1] + 1, 2 * p[2] + 1>>, p}
       IN  IF \A s \in used : InRange(s)
           THEN /\ tree' = [tree EXCEPT ![p[1]][p[2]] =
                                           ParentHash(tree, p[1], p[2])]
                /\ calls' = [calls EXCEPT !.add.i = p[2],
                                          !.add.d = p[1],
                                          !.add.iters = @ + 1,
                                          !.add.written = Append(@, p),
                                          !.add.acc = used]
           ELSE /\ tree' = tree
                /\ calls' = [calls EXCEPT !.add.pc = "panic",
                                          !.add.d = p[1],
                                          !.add.acc = used]
    /\ ret' = [op |-> "step"]
    /\ UNCHANGED <<depth, root_hash, data, index>>

\* The loop is left; self.index = self.index + 1 and the call returns.
AddReturn ==
    /\ StepLive
    /\ calls.add.pc = "loop"
    /\ ~PropagateTest(calls.add.i)
    /\ index' = index + 1
    /\ ret' = [op |-> "add_data", data |-> calls.add.data, accepted |-> TRUE,
               written |-> calls.add.written, start |-> calls.add.start,
               iters |-> calls.add.iters]
    /\ calls' = [calls EXCEPT !.add = [pc |-> "idle"]]
    /\ UNCHANGED <<depth, root_hash, data, tree>>

\* generate_proof is entered: the cursor is read, and the vector is resized.
ProofCall(j) ==
    /\ StepLive
    /\ calls.proof.pc = "idle"
    /\ LET busy == calls.add.pc # "idle"
           pre  == IF busy THEN calls.add.start ELSE Self
           over == IF busy THEN 1 ELSE 0
           v    == IF busy THEN calls.add.data ELSE EMPTY
       IN  IF ProofRefused(Self, j)
           THEN /\ ret' = [op |-> "generate_proof", index |-> j, val |-> <<>>,
                           iters |-> 0, overlaps |-> over, pre |-> pre,
                           data |-> v]
                /\ calls' = calls
           ELSE /\ ret' = [op |-> "step"]
                /\ calls' = [calls EXCEPT !.proof =
                     [pc |-> "loop", index |-> j, i |-> j, d |-> depth,
                      proof |-> [k \in 1..(depth + 1) |-> <<ZeroDigest, FALSE>>],
                      iters |-> 0, acc |-> {}, overlaps |-> over,
                      pre |-> pre, data |-> v]]
    /\ UNCHANGED <<depth, root_hash, data, tree, index>>

\* One iteration of "for d in (1..self.depth + 1).rev()": one slot is read.
ProofStep ==
    /\ StepLive
    /\ calls.proof.pc = "loop"
    /\ calls.proof.d >= 1
    /\ LET e == ProofEntry(calls.proof.i)
           s == <<calls.proof.d, e[1]>>
       IN  IF InRange(s)
           THEN calls' = [calls EXCEPT
                            !.proof.proof = [@ EXCEPT ![calls.proof.d + 1] =
                                               <<tree[s[1]][s[2]], e[2]>>],
                            !.proof.i = @ \div 2,
                            !.proof.d = @ - 1,
                            !.proof.iters = @ + 1,
                            !.proof.acc = {s}]
           ELSE calls' = [calls EXCEPT !.proof.pc = "panic",
                                       !.proof.acc = {s}]
    /\ ret' = [op |-> "step"]
    /\ UNCHANGED <<depth, root_hash, data, tree, index>>

\* The loop is left; proof[0] = (self.root_hash, true) and the call returns.
ProofReturn ==
    /\ StepLive
    /\ calls.proof.pc = "loop"
    /\ calls.proof.d < 1
    /\ ret' = [op |-> "generate_proof", index |-> calls.proof.index,
               val |-> [calls.proof.proof EXCEPT ![1] = ProofRoot(Self)],
               iters |-> calls.proof.iters, overlaps |-> calls.proof.overlaps,
               pre |-> calls.proof.pre, data |-> calls.proof.data]
    /\ calls' = [calls EXCEPT !.proof = [pc |-> "idle"]]
    /\ UNCHANGED <<depth, root_hash, data, tree, index>>

StepNext ==
    \/ \E v \in Values : AddCall(v)
    \/ AddStore
    \/ AddLeaf
    \/ AddLoop
    \/ AddReturn
    \/ \E j \in 0..Pow2(depth) : ProofCall(j)
    \/ ProofStep
    \/ ProofReturn

StepSpec == StepInit /\ [][StepNext]_vars


-----------------------------------------------------------------------------
\* The add_data in view: the one in flight, or the one that has just
\* returned.
AddInView ==
    IF calls.add.pc # "idle"
    THEN {[written |-> calls.add.written, start |-> calls.add.start,
           data |-> calls.add.data, returned |-> FALSE]}
    ELSE IF ret.op = "add_data"
         THEN {[written |-> ret.written, start |-> ret.start,
                data |-> ret.data, returned |-> TRUE]}
         ELSE {}

\* The leaf range of node (d, i) lies within the first n leaves.
Complete(d, i, n) == (i + 1) * Pow2(depth - d) <= n

\* The slots of tree.
Slots == {s \in (0..depth) \X (0..(Pow2(depth) - 1)) : InRange(s)}

\* C22: once the leaf range of a node (d, i) is fully appended, no later
\* add_data assigns tree[d][i] and its digest stays what it was; an add_data
\* at capacity assigns nothing, so the digest at (0, 0) is not written once
\* the cursor has reached capacity.
C22_FinalizedNeverWritten ==
    \A a \in AddInView :
        /\ \A k \in 1..Len(a.written) :
              ~Complete(a.written[k][1], a.written[k][2], a.start.index)
        /\ \A s \in Slots :
              Complete(s[1], s[2], a.start.index) =>
                  tree[s[1]][s[2]] = a.start.tree[s[1]][s[2]]
        /\ a.start.index = Capacity => (a.written = <<>> /\ tree = a.start.tree)

\* An add_data has returned on a tree that held a finalized internal node
\* with a digest other than the constructed one.
C22_Witness ==
    /\ ret.op = "add_data"
    /\ ret.accepted
    /\ Len(ret.written) >= 1
    /\ \E s \in Slots :
          /\ s[1] < depth
          /\ Complete(s[1], s[2], ret.start.index)
          /\ tree[s[1]][s[2]] # NewTree(depth)[s[1]][s[2]]

-----------------------------------------------------------------------------
\* The number of trailing 1-bits of n.
RECURSIVE TrailingOnes(_)
TrailingOnes(n) == IF n % 2 = 1 THEN 1 + TrailingOnes(n \div 2) ELSE 0

\* The slots the claim lets an append at cursor n assign, bottom-up: the
\* leaf (dep, n) and the ancestors (dep - k, n div 2^k), k = 1..t.
PropagationSet(dep, n) ==
    [k \in 1..(TrailingOnes(n) + 1) |-> <<dep - (k - 1), n \div Pow2(k - 1)>>]

\* C23: a successful add_data at cursor n assigns the leaf digest (depth, n)
\* and then recomputes exactly the ancestors (depth - k, n div 2^k) for
\* k = 1..t, t the number of trailing 1-bits of n, in bottom-up order; every
\* other digest of every level is as it was on entry.
C23_PropagationSet ==
    \A a \in AddInView :
        LET n   == a.start.index
            set == PropagationSet(depth, n)
            w   == a.written
        IN  n < Capacity =>
              /\ Len(w) <= Len(set)
              /\ \A k \in 1..Len(w) : w[k] = set[k]
              /\ a.returned => w = set
              /\ Len(w) >= 1 => tree[depth][n] = calculate_hash(a.data)
              /\ \A k \in 2..Len(w) :
                    tree[w[k][1]][w[k][2]] = ParentHash(tree, w[k][1], w[k][2])
              /\ \A s \in Slots :
                    (\A k \in 1..Len(w) : w[k] # s) =>
                        tree[s[1]][s[2]] = a.start.tree[s[1]][s[2]]

\* An append has returned after recomputing two ancestors or more, and
\* changed the last of them.
C23_Witness ==
    /\ ret.op = "add_data"
    /\ ret.accepted
    /\ Len(ret.written) >= 3
    /\ LET s == ret.written[Len(ret.written)]
       IN  tree[s[1]][s[2]] # ret.start.tree[s[1]][s[2]]

-----------------------------------------------------------------------------
\* C24: the propagation loop of add_data runs at most depth iterations and
\* its level counter d never goes below 0; generate_proof for an appended
\* index runs exactly depth iterations; every tree[d][k] they index has
\* 0 <= d <= depth and 0 <= k < 2^d, so no indexing panics.
C24_BoundedLoops ==
    /\ StepLive
    /\ calls.add.pc # "idle" =>
          /\ calls.add.d >= 0
          /\ calls.add.iters <= depth
          /\ calls.add.pc = "loop" => calls.add.d = depth - calls.add.iters
          /\ \A s \in calls.add.acc : InRange(s)
    /\ calls.proof.pc # "idle" =>
          /\ calls.proof.d >= 0
          /\ calls.proof.iters = depth - calls.proof.d
          /\ \A s \in calls.proof.acc : InRange(s)
    /\ ret.op = "add_data" => ret.iters <= depth
    /\ (ret.op = "generate_proof" /\ ret.val # <<>>) => ret.iters = depth

\* An append has run depth >= 2 iterations, down to level 0.
C24_Witness ==
    /\ depth >= 2
    /\ ret.op = "add_data"
    /\ ret.iters = depth
    /\ ret.written[Len(ret.written)] = <<0, 0>>

-----------------------------------------------------------------------------
\* The leaf digests written so far, the one of the append in flight among
\* them.
LeavesWritten == IF calls.add.pc = "loop" THEN index + 1 ELSE index

\* The digest stored at (d, i) is the final one: the Merkle digest of the
\* values appended below it.
FinalDigest(d, i) ==
    /\ Complete(d, i, LeavesWritten)
    /\ tree[d][i] = NodeOf(data, depth, d, i)

\* An internal node whose two children hold their final digests and that is
\* not the hash of them.
HalfPropagated(d, i) ==
    /\ d < depth
    /\ FinalDigest(d + 1, 2 * i)
    /\ FinalDigest(d + 1, 2 * i + 1)
    /\ tree[d][i] # ParentHash(tree, d, i)

\* C27: with add_data taken as its separate steps, the steps pass through
\* states in which an internal node whose two children hold their final
\* digests is not the hash of them: whenever the index just written is a
\* right child, its parent has two final children and still holds the
\* constructed digest, and a node is in that condition only while the
\* append in flight has still to recompute it.
C27_HalfPropagated ==
    /\ (calls.add.pc = "loop" /\ PropagateTest(calls.add.i)) =>
          LET p == ParentSlot(calls.add.d, calls.add.i)
          IN  /\ FinalDigest(p[1] + 1, 2 * p[2])
              /\ FinalDigest(p[1] + 1, 2 * p[2] + 1)
              /\ tree[p[1]][p[2]] = NewTree(depth)[p[1]][p[2]]
    /\ \A s \in Slots :
          HalfPropagated(s[1], s[2]) =>
              /\ calls.add.pc = "loop"
              /\ \E k \in 2..(TrailingOnes(index) + 1) :
                    /\ k > Len(calls.add.written)
                    /\ s = PropagationSet(depth, index)[k]

\* The half-propagated state: a generate_proof is in flight while an
\* internal node with two final children is not the hash of them.
C27_Witness ==
    /\ calls.proof.pc = "loop"
    /\ \E s \in Slots : HalfPropagated(s[1], s[2])

-----------------------------------------------------------------------------
\* C28: a generate_proof(j) that overlaps one add_data, taken slot by slot,
\* returns what generate_proof(j) returns on the struct before that
\* add_data or what it returns on the struct after it.
C28_ProofsLinearizable ==
    (ret.op = "generate_proof" /\ ret.overlaps <= 1) =>
        LET before == ret.pre
            after  == IF ret.overlaps = 0 THEN ret.pre
                      ELSE add_data(ret.pre, ret.data)
        IN  \/ ret.val = generate_proof(before, ret.index)
            \/ ret.val = generate_proof(after, ret.index)

\* A generate_proof has returned, while the add_data it overlaps is still in
\* flight, the proof of the struct after that add_data, which is not the
\* proof of the struct before it.
C28_Witness ==
    /\ ret.op = "generate_proof"
    /\ ret.overlaps = 1
    /\ calls.add.pc = "loop"
    /\ ret.val # <<>>
    /\ ret.val = generate_proof(add_data(ret.pre, ret.data), ret.index)
    /\ ret.val # generate_proof(ret.pre, ret.index)

=============================================================================
